---- MODULE Spec2Model ----
(***************************************************************************)
(* Permission Store of one tenant namespace of gin-saas: the tables        *)
(* groups, permissions and group_permissions, the group service            *)
(* (src/general/service/group.go) on top of the group repository           *)
(* (src/general/repository/user_repository.go), and the authorization      *)
(* query used by the permission middleware.                                *)
(* Tenant Schema Router (src/bootstrap/database.go): the connection pool,  *)
(* the namespaces and their helper routine update_column, and the calls    *)
(* GetConnForSchema and CreateSchema statement by statement.               *)
(***************************************************************************)
EXTENDS Integers, Sequences, FiniteSets, Bags, TLC

\* ------------------------------------------------------------------ bounds
\* highest value the groups id sequence hands out
MaxGroupId == 2
\* number of permission rows that can be created on top of the seeded ones
MaxNewPerms == 1
\* number of users that are members of some group
MaxUsers == 2
\* number of requests that run at the same time
MaxCallers == 2
\* size of the connection pool
MaxConns == 2
\* number of statements that fail for a reason outside the program (lost
\* connection, cancelled context)
MaxFaults == 1
\* highest id of a group or permission where two tenants are followed
MaxTenantRows == 1
\* time units in a second; time.Duration(1) is one unit (10^9 to the second
\* in the program)
UnitsPerSecond == 2
\* last instant of the clock, in seconds
MaxSeconds == 3

\* ------------------------------------------------- program constants
DefaultPermissions ==
    << "user_view", "user_create", "user_update", "user_delete",
       "group_view", "group_create", "group_update", "group_delete",
       "permission_view", "permission_create", "permission_update",
       "permission_delete" >>

NumSys == Len(DefaultPermissions)

\* ------------------------------------------------------------ state
VARIABLES
    groups,              \* table groups: id -> name
    permissions,         \* table permissions: id -> name
    group_permissions,   \* table group_permissions: bag of <<group_id, permission_id>>
    groups_id_seq,       \* next value of the SERIAL of groups.id
    permissions_id_seq,  \* next value of the SERIAL of permissions.id
    user_groups          \* relation user_groups: set of <<user_id, group_id>>

\* the database server and the pool behind the DBManager
VARIABLES
    namespaces,          \* schemas that exist
    routines,            \* schemas whose function update_column is committed
    conn_busy,           \* pool connection -> checked out of the pool
    conn_path,           \* pool connection -> its search_path
    calls,               \* caller -> the router or service call it is in
    faults               \* failures from outside the program still to come

routerVars == << namespaces, routines, conn_busy, conn_path, calls, faults >>

\* requests of several tenants, one after the other, on a pooled connection.
\* The store variables above are the tables of the schema on the search_path
\* of that connection, where unqualified table names resolve.
VARIABLES
    request_tenant,      \* tenant name of the request being served
    active_schema,       \* search_path of the connection of the request
    parked               \* schema not on the search_path -> its tables

tenantVars == << request_tenant, active_schema, parked >>

\* the AuthService and its clock
VARIABLES
    now,                 \* time.Now(), in time units
    config               \* bootstrap.Config.PublicJWTConfig

tokenVars == << now, config >>

\* the start of the process, before the server listens
VARIABLES
    startup              \* initializePermissionsForAllSchemas: where it is

bootVars == << startup >>

\* GroupService calls of several requests at once, each on a connection of
\* its own, statement by statement
VARIABLES
    workers              \* caller -> the GroupService call it is in

raceVars == << workers >>

storeVars == << groups, permissions, group_permissions, groups_id_seq,
               permissions_id_seq, user_groups >>

\* everything outside the tables of the tenant in scope
envVars == << routerVars, tenantVars, tokenVars, bootVars, raceVars >>
\* everything outside the tables and the calls on them
outsideRaces == << routerVars, tenantVars, tokenVars, bootVars >>
\* everything outside the router
outsideRouter == << storeVars, tenantVars, tokenVars, bootVars, raceVars >>

vars == << storeVars, routerVars, tenantVars, tokenVars, bootVars, raceVars >>

tables == << groups, permissions, group_permissions >>

\* ------------------------------------------------------------ inputs
Users == 1..MaxUsers
UserIdArgs == 1..(MaxUsers + 1)
GroupIdArgs == 1..(MaxGroupId + 1)
\* permission ids a caller names in a seeded tenant: the first system
\* permission, the ids of the rows created later, and one id that is never used
PermIdArgs == {1} \cup ((NumSys + 1)..(NumSys + MaxNewPerms + 1))
\* the same in a tenant that starts with empty tables
PermIdArgsBare == 1..(MaxNewPerms + 2)
GroupNameArgs == {"", "admin", "staff"}
PermNameArgs == {"", DefaultPermissions[1], "report_view"}

\* the elements of a finite set of numbers in increasing order
RECURSIVE SetToSeq(_)
SetToSeq(S) ==
    IF S = {} THEN <<>>
    ELSE LET m == CHOOSE x \in S : \A y \in S : x <= y
         IN  <<m>> \o SetToSeq(S \ {m})

\* permission id lists a caller passes to SetGroupPermissions: every subset of
\* the ids, and every id given twice
IdLists(S) == {SetToSeq(T) : T \in SUBSET S} \cup {<<p, p>> : p \in S}

Range(s) == {s[i] : i \in DOMAIN s}
EmptyTable == [x \in {} |-> 0]

\* --------------------------------------------- table group_permissions
\* rows of the join table that belong to one group / one permission
Linked(gp, g, p) == BagIn(<<g, p>>, gp)

RowsWhere(gp, kept) == [r \in kept |-> gp[r]]

\* the join table without the cascade from groups: the rows stay behind
CascadeDeleteGroupMissing(gp, g) == gp

\* FOREIGN KEY (group_id) REFERENCES groups(id) ON DELETE CASCADE
CascadeDeleteGroup(gp, g) ==
    RowsWhere(gp, {r \in DOMAIN gp : r[1] # g})

\* FOREIGN KEY (permission_id) REFERENCES permissions(id) ON DELETE CASCADE
CascadeDeletePermission(gp, p) ==
    RowsWhere(gp, {r \in DOMAIN gp : r[2] # p})

\* INSERT of one row: both foreign keys and the primary key are checked
InsertLink(gs, ps, gp, g, p) ==
    IF g \notin DOMAIN gs \/ p \notin DOMAIN ps \/ BagIn(<<g, p>>, gp)
    THEN [err |-> "storage", gp |-> gp]
    ELSE [err |-> "ok", gp |-> gp (+) SetToBag({<<g, p>>})]

\* ------------------------------------------------------ group repository
\* result of a repository or service call: error kind and the tables after it
Result(err, gs, ps, gp) == [err |-> err, groups |-> gs, permissions |-> ps, gp |-> gp]

Unchanged(err) == Result(err, groups, permissions, group_permissions)

RepoGetGroup(id) ==
    IF id \in DOMAIN groups
    THEN [err |-> "ok", ID |-> id, Name |-> groups[id]]
    ELSE [err |-> "not_found", ID |-> 0, Name |-> ""]

RepoGetPermission(id) ==
    IF id \in DOMAIN permissions
    THEN [err |-> "ok", ID |-> id, Name |-> permissions[id]]
    ELSE [err |-> "not_found", ID |-> 0, Name |-> ""]

RepoGetPermissionByName(name) ==
    IF \E p \in DOMAIN permissions : permissions[p] = name
    THEN [err |-> "ok", ID |-> CHOOSE p \in DOMAIN permissions : permissions[p] = name,
          Name |-> name]
    ELSE [err |-> "not_found", ID |-> 0, Name |-> ""]

GroupExists(id) == id \in DOMAIN groups

PermissionExists(id) == id \in DOMAIN permissions

HasPermission(groupID, permissionID) == Linked(group_permissions, groupID, permissionID)

\* INSERT ... ON CONFLICT (group_id, permission_id) DO NOTHING
InsertLinkOnConflictDoNothing(gp, g, p) ==
    IF BagIn(<<g, p>>, gp) THEN [err |-> "ok", gp |-> gp]
    ELSE InsertLink(groups, permissions, gp, g, p)

\* AddPermissionToGroup without the HasPermission check: the INSERT then does
\* nothing on a conflict and the call reports success
RepoAddPermissionToGroupUnchecked(groupID, permissionID) ==
    IF ~GroupExists(groupID) THEN Unchanged("not_found")
    ELSE IF ~PermissionExists(permissionID) THEN Unchanged("not_found")
    ELSE LET ins == InsertLinkOnConflictDoNothing(group_permissions, groupID, permissionID)
         IN  Result(ins.err, groups, permissions, ins.gp)

RepoAddPermissionToGroup(groupID, permissionID) ==
    IF ~GroupExists(groupID) THEN Unchanged("not_found")
    ELSE IF ~PermissionExists(permissionID) THEN Unchanged("not_found")
    ELSE IF HasPermission(groupID, permissionID) THEN Unchanged("already_granted")
    ELSE LET ins == InsertLinkOnConflictDoNothing(group_permissions, groupID, permissionID)
         IN  Result(ins.err, groups, permissions, ins.gp)

\* RemovePermissionFromGroup whose DELETE lacks the permission_id condition
RepoRemovePermissionFromGroupWide(groupID, permissionID) ==
    LET keep == {r \in DOMAIN group_permissions : r[1] # groupID}
        after == RowsWhere(group_permissions, keep)
        RowsAffected == BagCardinality(group_permissions) - BagCardinality(after)
    IN  IF RowsAffected = 0 THEN Unchanged("not_found")
        ELSE Result("ok", groups, permissions, after)

\* DELETE FROM group_permissions WHERE group_id = $1 AND permission_id = $2
RepoRemovePermissionFromGroup(groupID, permissionID) ==
    LET keep == DOMAIN group_permissions \ {<<groupID, permissionID>>}
        after == RowsWhere(group_permissions, keep)
        RowsAffected == BagCardinality(group_permissions) - BagCardinality(after)
    IN  IF RowsAffected = 0 THEN Unchanged("not_found")
        ELSE Result("ok", groups, permissions, after)

\* the multi-row INSERT of SetGroupPermissions, one statement: it fails as a
\* whole when a row breaks a foreign key or the primary key (a row already in
\* the table, or the same row twice in the statement)
InsertRows(gp, groupID, permissionIDs) ==
    LET n == Len(permissionIDs)
        fk == groupID \in DOMAIN groups /\ \A i \in 1..n : permissionIDs[i] \in DOMAIN permissions
        pk == /\ \A i \in 1..n : ~BagIn(<<groupID, permissionIDs[i]>>, gp)
              /\ \A i, j \in 1..n : i # j => permissionIDs[i] # permissionIDs[j]
    IN  IF fk /\ pk
        THEN [err |-> "ok", gp |-> gp (+) SetToBag({<<groupID, permissionIDs[i]>> : i \in 1..n})]
        ELSE [err |-> "storage", gp |-> gp]

\* SetGroupPermissions without the transaction: a failed insert leaves the
\* group cleared
RepoSetGroupPermissionsNoRollback(groupID, permissionIDs) ==
    LET keep == {r \in DOMAIN group_permissions : r[1] # groupID}
        cleared == RowsWhere(group_permissions, keep)
        ins == InsertRows(cleared, groupID, permissionIDs)
    IN  IF Len(permissionIDs) = 0 THEN Result("ok", groups, permissions, cleared)
        ELSE IF ins.err # "ok" THEN Result("storage", groups, permissions, cleared)
        ELSE Result("ok", groups, permissions, ins.gp)

\* transaction: clear the group's rows, insert the new ones, commit; the
\* deferred Rollback restores the rows whenever the insert fails
RepoSetGroupPermissions(groupID, permissionIDs) ==
    LET keep == {r \in DOMAIN group_permissions : r[1] # groupID}
        cleared == RowsWhere(group_permissions, keep)
        ins == InsertRows(cleared, groupID, permissionIDs)
    IN  IF Len(permissionIDs) = 0 THEN Result("ok", groups, permissions, cleared)
        ELSE IF ins.err # "ok" THEN Unchanged("storage")
        ELSE Result("ok", groups, permissions, ins.gp)

\* DELETE FROM groups WHERE id = $1, with the cascade of the join table
RepoDeleteGroup(id) ==
    IF id \notin DOMAIN groups THEN Unchanged("not_found")
    ELSE Result("ok", [g \in DOMAIN groups \ {id} |-> groups[g]], permissions,
                CascadeDeleteGroup(group_permissions, id))

\* DELETE FROM permissions WHERE id = $1, with the cascade of the join table
RepoDeletePermission(id) ==
    IF id \notin DOMAIN permissions THEN Unchanged("not_found")
    ELSE Result("ok", groups, [p \in DOMAIN permissions \ {id} |-> permissions[p]],
                CascadeDeletePermission(group_permissions, id))

\* UPDATE groups SET name = $2 WHERE id = $1; name is UNIQUE
RepoUpdateGroup(id, name) ==
    IF id \notin DOMAIN groups THEN Unchanged("not_found")
    ELSE IF \E g \in DOMAIN groups \ {id} : groups[g] = name THEN Unchanged("conflict")
    ELSE Result("ok", [groups EXCEPT ![id] = name], permissions, group_permissions)

\* UPDATE permissions SET name = $2 WHERE id = $1; name is UNIQUE
RepoUpdatePermission(id, name) ==
    IF id \notin DOMAIN permissions THEN Unchanged("not_found")
    ELSE IF \E p \in DOMAIN permissions \ {id} : permissions[p] = name THEN Unchanged("conflict")
    ELSE Result("ok", groups, [permissions EXCEPT ![id] = name], group_permissions)

\* INSERT INTO groups (name): the id comes from the sequence; name is UNIQUE
RepoCreateGroup(name) ==
    IF name \in Range(groups) THEN Unchanged("conflict")
    ELSE Result("ok", [g \in DOMAIN groups \cup {groups_id_seq} |->
                          IF g = groups_id_seq THEN name ELSE groups[g]],
                permissions, group_permissions)

\* INSERT INTO permissions (name): the id comes from the sequence; name is UNIQUE
RepoCreatePermission(name) ==
    IF name \in Range(permissions) THEN Unchanged("conflict")
    ELSE Result("ok", groups,
                [p \in DOMAIN permissions \cup {permissions_id_seq} |->
                    IF p = permissions_id_seq THEN name ELSE permissions[p]],
                group_permissions)

\* the authorization query of the repository: one join over the user's
\* groups and the groups' permissions
RepoUserHasPermission(userId, permissionId) ==
    \E r \in BagToSet(group_permissions) :
        /\ r[2] = permissionId
        /\ <<userId, r[1]>> \in user_groups

RepoUserHasPermissionByName(userId, permissionName) ==
    \E r \in BagToSet(group_permissions) :
        /\ r[2] \in DOMAIN permissions
        /\ permissions[r[2]] = permissionName
        /\ <<userId, r[1]>> \in user_groups

\* --------------------------------------------------------- group service
\* for _, perm := range domain.DefaultPermissions { if name == perm ... }
IsSystemPermission(name) == \E i \in 1..Len(DefaultPermissions) : DefaultPermissions[i] = name

\* the loop stopping one name short of the end of DefaultPermissions
RECURSIVE EnsureSystemPermissionsShort(_, _)
EnsureSystemPermissionsShort(i, permissionIds) ==
    IF i >= Len(DefaultPermissions) THEN permissionIds
    ELSE LET perm == RepoGetPermissionByName(DefaultPermissions[i])
         IN  IF perm.err = "ok" /\ \A k \in 1..Len(permissionIds) : permissionIds[k] # perm.ID
             THEN EnsureSystemPermissionsShort(i + 1, Append(permissionIds, perm.ID))
             ELSE EnsureSystemPermissionsShort(i + 1, permissionIds)

\* the loop of SetGroupPermissions over the system permission names, from
\* the i-th on: a name that resolves to a permission whose id is not yet in the
\* list is appended, a name that does not resolve is skipped with a log line
RECURSIVE EnsureSystemPermissions(_, _)
EnsureSystemPermissions(i, permissionIds) ==
    IF i > Len(DefaultPermissions) THEN permissionIds
    ELSE LET perm == RepoGetPermissionByName(DefaultPermissions[i])
         IN  IF perm.err = "ok" /\ \A k \in 1..Len(permissionIds) : permissionIds[k] # perm.ID
             THEN EnsureSystemPermissions(i + 1, Append(permissionIds, perm.ID))
             ELSE EnsureSystemPermissions(i + 1, permissionIds)

\* GetPermissionByName when the SELECT of the names in failing meets an error
\* of the storage (a lost connection, a timeout): ErrNoRows gives "permission
\* not found", every other error "failed to get permission"
RepoGetPermissionByNameUnder(name, failing) ==
    IF name \in failing THEN [err |-> "storage", ID |-> 0, Name |-> ""]
    ELSE RepoGetPermissionByName(name)

\* the loop of SetGroupPermissions when lookups fail: err != nil is answered
\* with a log line and continue, whatever the error is
RECURSIVE EnsureSystemPermissionsUnder(_, _, _)
EnsureSystemPermissionsUnder(i, permissionIds, failing) ==
    IF i > Len(DefaultPermissions) THEN permissionIds
    ELSE LET perm == RepoGetPermissionByNameUnder(DefaultPermissions[i], failing)
         IN  IF perm.err = "ok" /\ \A k \in 1..Len(permissionIds) : permissionIds[k] # perm.ID
             THEN EnsureSystemPermissionsUnder(i + 1, Append(permissionIds, perm.ID), failing)
             ELSE EnsureSystemPermissionsUnder(i + 1, permissionIds, failing)

SvcCreateGroup(name) ==
    IF name = "" THEN Unchanged("invalid") ELSE RepoCreateGroup(name)

SvcUpdateGroup(id, name) ==
    IF name = "" THEN Unchanged("invalid") ELSE RepoUpdateGroup(id, name)

SvcDeleteGroup(id) ==
    IF RepoGetGroup(id).err # "ok" THEN Unchanged("not_found") ELSE RepoDeleteGroup(id)

SvcAddPermissionToGroup(groupId, permissionId) ==
    RepoAddPermissionToGroup(groupId, permissionId)

\* RemovePermissionFromGroup without the branch for the group "admin"
SvcRemovePermissionFromGroupUnguarded(groupId, permissionId) ==
    IF RepoGetGroup(groupId).err # "ok" THEN Unchanged("not_found")
    ELSE RepoRemovePermissionFromGroup(groupId, permissionId)

SvcRemovePermissionFromGroup(groupId, permissionId) ==
    LET group == RepoGetGroup(groupId)
        permission == RepoGetPermission(permissionId)
    IN  IF group.err # "ok" THEN Unchanged("not_found")
        ELSE IF group.Name = "admin" /\ permission.err # "ok" THEN Unchanged("not_found")
        ELSE IF group.Name = "admin" /\ IsSystemPermission(permission.Name)
             THEN Unchanged("protected")
        ELSE RepoRemovePermissionFromGroup(groupId, permissionId)

SvcSetGroupPermissions(groupId, permissionIds) ==
    LET group == RepoGetGroup(groupId)
    IN  IF group.err # "ok" THEN Unchanged("not_found")
        ELSE IF group.Name = "admin"
             THEN RepoSetGroupPermissions(groupId, EnsureSystemPermissions(1, permissionIds))
             ELSE RepoSetGroupPermissions(groupId, permissionIds)

\* SetGroupPermissions when the lookups of the names in failing meet a
\* storage error
SvcSetGroupPermissionsUnder(groupId, permissionIds, failing) ==
    LET group == RepoGetGroup(groupId)
    IN  IF group.err # "ok" THEN Unchanged("not_found")
        ELSE IF group.Name = "admin"
             THEN RepoSetGroupPermissions(groupId,
                      EnsureSystemPermissionsUnder(1, permissionIds, failing))
             ELSE RepoSetGroupPermissions(groupId, permissionIds)

SvcCreatePermission(name) ==
    IF name = "" THEN Unchanged("invalid") ELSE RepoCreatePermission(name)

SvcUpdatePermission(id, name) ==
    IF name = "" THEN Unchanged("invalid") ELSE RepoUpdatePermission(id, name)

\* DeletePermission without the system permission check
SvcDeletePermissionUnguarded(id) ==
    IF RepoGetPermission(id).err # "ok" THEN Unchanged("not_found")
    ELSE RepoDeletePermission(id)

SvcDeletePermission(id) ==
    LET permission == RepoGetPermission(id)
    IN  IF permission.err # "ok" THEN Unchanged("not_found")
        ELSE IF IsSystemPermission(permission.Name) THEN Unchanged("protected")
        ELSE RepoDeletePermission(id)

\* a check that answers from the links the tenant was seeded with
SvcUserHasPermissionSeeded(userId, permissionId) ==
    [err |-> "ok",
     res |-> <<userId, 1>> \in user_groups /\ permissionId \in 1..NumSys]

SvcUserHasPermission(userId, permissionId) ==
    [err |-> "ok", res |-> RepoUserHasPermission(userId, permissionId)]

\* UserHasPermissionByName answering with the absence of an error
SvcUserHasPermissionByNameNoAnswer(userId, permissionName) ==
    IF permissionName = "" THEN [err |-> "invalid", res |-> FALSE]
    ELSE [err |-> "ok", res |-> TRUE]

SvcUserHasPermissionByName(userId, permissionName) ==
    IF permissionName = "" THEN [err |-> "invalid", res |-> FALSE]
    ELSE [err |-> "ok", res |-> RepoUserHasPermissionByName(userId, permissionName)]

\* ---------------------------------------------------------------- actions
\* One action per service method.  A call that returns an error leaves the
\* tables as they were; what a call returns is the err field of its result.
Apply(r) ==
    /\ groups' = r.groups
    /\ permissions' = r.permissions
    /\ group_permissions' = r.gp
    /\ UNCHANGED envVars

CreateGroup(name) ==
    /\ Apply(SvcCreateGroup(name))
    \* nextval is taken by the INSERT whether or not the row goes in
    /\ groups_id_seq' = IF name = "" THEN groups_id_seq ELSE groups_id_seq + 1
    /\ UNCHANGED << permissions_id_seq, user_groups >>

UpdateGroup(id, name) ==
    /\ Apply(SvcUpdateGroup(id, name))
    /\ UNCHANGED << groups_id_seq, permissions_id_seq, user_groups >>

DeleteGroup(id) ==
    /\ Apply(SvcDeleteGroup(id))
    /\ UNCHANGED << groups_id_seq, permissions_id_seq, user_groups >>

AddPermissionToGroup(groupId, permissionId) ==
    /\ Apply(SvcAddPermissionToGroup(groupId, permissionId))
    /\ UNCHANGED << groups_id_seq, permissions_id_seq, user_groups >>

RemovePermissionFromGroup(groupId, permissionId) ==
    /\ Apply(SvcRemovePermissionFromGroup(groupId, permissionId))
    /\ UNCHANGED << groups_id_seq, permissions_id_seq, user_groups >>

SetGroupPermissions(groupId, permissionIds) ==
    /\ Apply(SvcSetGroupPermissions(groupId, permissionIds))
    /\ UNCHANGED << groups_id_seq, permissions_id_seq, user_groups >>

SetGroupPermissionsUnder(groupId, permissionIds, failing) ==
    /\ Apply(SvcSetGroupPermissionsUnder(groupId, permissionIds, failing))
    /\ UNCHANGED << groups_id_seq, permissions_id_seq, user_groups >>

CreatePermission(name) ==
    /\ Apply(SvcCreatePermission(name))
    /\ permissions_id_seq' = IF name = "" THEN permissions_id_seq ELSE permissions_id_seq + 1
    /\ UNCHANGED << groups_id_seq, user_groups >>

UpdatePermission(id, name) ==
    /\ Apply(SvcUpdatePermission(id, name))
    /\ UNCHANGED << groups_id_seq, permissions_id_seq, user_groups >>

DeletePermission(id) ==
    /\ Apply(SvcDeletePermission(id))
    /\ UNCHANGED << groups_id_seq, permissions_id_seq, user_groups >>

\* the two permission checks read the tables and change nothing
UserHasPermission(userId, permissionId) ==
    /\ SvcUserHasPermission(userId, permissionId).err = "ok"
    /\ UNCHANGED vars

UserHasPermissionByName(userId, permissionName) ==
    /\ SvcUserHasPermissionByName(userId, permissionName).err \in {"ok", "invalid"}
    /\ UNCHANGED vars

\* ------------------------------------------------- Tenant Schema Router
\* DBManager over a pgx pool.  Every statement of GetConnForSchema and
\* CreateSchema is one step, so that calls of different requests interleave
\* as the server sees them.
Callers == 1..MaxCallers
Conns == 1..MaxConns
NoConn == 0
\* tenant names that requests carry
Schemas == {"acme", "globex"}
\* search_path of a fresh connection
DefaultPath == "public"

IdleCall ==
    [op |-> "none", schema |-> DefaultPath, pc |-> "idle", conn |-> NoConn,
     err |-> "ok", faulted |-> FALSE]

RouterInit ==
    /\ namespaces = {}
    /\ routines = {}
    /\ conn_busy = [c \in Conns |-> FALSE]
    /\ conn_path = [c \in Conns |-> DefaultPath]
    /\ calls = [p \in Callers |-> IdleCall]
    /\ faults = MaxFaults

\* SET search_path acts on the session of the connection that runs it, and
\* with every connection of the pool on the same setting
SetSearchPathOfPool(paths, c, schema) == [x \in DOMAIN paths |-> schema]

\* SET search_path TO <schema> on connection c: a setting of that session.
\* The server takes any well-formed name, whether or not the schema exists.
SetSearchPath(paths, c, schema) == [paths EXCEPT ![c] = schema]

\* pool.Acquire / conn.Release
PoolAcquire(busy, c) == [busy EXCEPT ![c] = TRUE]
PoolRelease(busy, c) == [busy EXCEPT ![c] = FALSE]

\* the call of p goes on to its next statement
Goto(p, pc) == [calls EXCEPT ![p].pc = pc]
\* the call of p returns (conn, nil) or (nil, err)
Return(p, err, c, faulted) ==
    [calls EXCEPT ![p].pc = "done", ![p].err = err, ![p].conn = c,
                  ![p].faulted = faulted]

\* a transaction of another call holds an uncommitted update_column of the
\* same schema
RoutineLockedByOther(p) ==
    \E q \in Callers \ {p} :
        calls[q].pc = "commit" /\ calls[q].schema = calls[p].schema

\* calls that wait for the transaction of p on the catalog row of the routine
WaitingFor(p) ==
    {q \in Callers \ {p} : calls[q].pc = "wait" /\ calls[q].schema = calls[p].schema}

\* a request enters GetConnForSchema, CreateSchema or a GroupService method
StartCall(p, op, schema) ==
    /\ calls[p].pc = "idle" \/ (calls[p].pc = "done" /\ calls[p].conn = NoConn)
    /\ calls' = [calls EXCEPT ![p] =
                    [op |-> op, schema |-> schema, pc |-> "acquire",
                     conn |-> NoConn, err |-> "ok", faulted |-> FALSE]]
    /\ UNCHANGED << namespaces, routines, conn_busy, conn_path, faults,
                    outsideRouter >>

\* conn, err := m.pool.Acquire(ctx): waits for a free connection
Acquire(p) ==
    /\ calls[p].pc = "acquire"
    /\ \E c \in Conns :
           /\ ~conn_busy[c]
           /\ conn_busy' = PoolAcquire(conn_busy, c)
           /\ calls' = [calls EXCEPT ![p].conn = c,
                           ![p].pc = IF calls[p].op = "CreateSchema"
                                     THEN "create_schema" ELSE "set_path"]
    /\ UNCHANGED << namespaces, routines, conn_path, faults,
                    outsideRouter >>

\* Acquire returns an error: return nil, err
AcquireFails(p) ==
    /\ calls[p].pc = "acquire"
    /\ faults > 0
    /\ faults' = faults - 1
    /\ calls' = Return(p, "storage", NoConn, TRUE)
    /\ UNCHANGED << namespaces, routines, conn_busy, conn_path,
                    outsideRouter >>

\* CREATE SCHEMA IF NOT EXISTS, its own transaction
ExecCreateSchema(p) ==
    /\ calls[p].pc = "create_schema"
    /\ namespaces' = namespaces \cup {calls[p].schema}
    /\ calls' = Goto(p, "set_path")
    /\ UNCHANGED << routines, conn_busy, conn_path, faults,
                    outsideRouter >>

\* SET search_path TO ...: GetConnForSchema returns the connection,
\* CreateSchema goes on to its transaction, a service method to its queries
ExecSetSearchPath(p) ==
    /\ calls[p].pc = "set_path"
    /\ conn_path' = SetSearchPath(conn_path, calls[p].conn, calls[p].schema)
    /\ calls' = IF calls[p].op = "GetConnForSchema"
                THEN Return(p, "ok", calls[p].conn, FALSE)
                ELSE IF calls[p].op = "CreateSchema" THEN Goto(p, "begin")
                ELSE Goto(p, "body")
    /\ UNCHANGED << namespaces, routines, conn_busy, faults,
                    outsideRouter >>

\* tx, err := conn.Begin(ctx)
Begin(p) ==
    /\ calls[p].pc = "begin"
    /\ calls' = Goto(p, "exec")
    /\ UNCHANGED << namespaces, routines, conn_busy, conn_path, faults,
                    outsideRouter >>

\* one of the statements before the transaction fails: conn.Release() and
\* return nil, err
StatementFails(p) ==
    /\ calls[p].pc \in {"create_schema", "set_path", "begin"}
    /\ faults > 0
    /\ faults' = faults - 1
    /\ conn_busy' = PoolRelease(conn_busy, calls[p].conn)
    /\ calls' = Return(p, "storage", NoConn, TRUE)
    /\ UNCHANGED << namespaces, routines, conn_path,
                    outsideRouter >>

\* CREATE OR REPLACE FUNCTION update_column() inside the transaction: the
\* statement writes the catalog row of the routine, and waits when the
\* transaction of another call has written that row and is still open
ExecCreateRoutine(p) ==
    /\ calls[p].pc = "exec"
    /\ calls' = IF RoutineLockedByOther(p) THEN Goto(p, "wait") ELSE Goto(p, "commit")
    /\ UNCHANGED << namespaces, routines, conn_busy, conn_path, faults,
                    outsideRouter >>

\* tx.Commit(ctx) and return conn, nil.  A statement that waited for this
\* transaction finds the row changed under it and fails (duplicate key on
\* the first creation, "tuple concurrently updated" on a replacement).
Commit(p) ==
    /\ calls[p].pc = "commit"
    /\ routines' = routines \cup {calls[p].schema}
    /\ calls' = [q \in Callers |->
                    IF q = p THEN Return(p, "ok", calls[p].conn, FALSE)[p]
                    ELSE IF q \in WaitingFor(p) THEN Goto(q, "conflict")[q]
                    ELSE calls[q]]
    /\ UNCHANGED << namespaces, conn_busy, conn_path, faults,
                    outsideRouter >>

\* tx.Exec returns the error of the conflict: return nil, err with the
\* deferred Rollback, and no Release
RoutineConflict(p) ==
    /\ calls[p].pc = "conflict"
    /\ calls' = Return(p, "storage", NoConn, FALSE)
    /\ UNCHANGED << namespaces, routines, conn_busy, conn_path, faults,
                    outsideRouter >>

\* tx.Exec or tx.Commit fails: return nil, err with the deferred Rollback,
\* and no Release.  Statements that waited for the transaction go on.
TransactionFails(p) ==
    /\ calls[p].pc \in {"exec", "commit"}
    /\ faults > 0
    /\ faults' = faults - 1
    /\ calls' = [q \in Callers |->
                    IF q = p THEN Return(p, "storage", NoConn, TRUE)[p]
                    ELSE IF calls[p].pc = "commit" /\ q \in WaitingFor(p)
                    THEN Goto(q, "exec")[q]
                    ELSE calls[q]]
    /\ UNCHANGED << namespaces, routines, conn_busy, conn_path,
                    outsideRouter >>

\* the queries of a GroupService method, then the deferred conn.Release()
ServiceBody(p) ==
    /\ calls[p].pc = "body"
    /\ conn_busy' = PoolRelease(conn_busy, calls[p].conn)
    /\ calls' = Return(p, "ok", NoConn, FALSE)
    /\ UNCHANGED << namespaces, routines, conn_path, faults,
                    outsideRouter >>

\* a query of a GroupService method fails: the deferred conn.Release() runs
ServiceBodyFails(p) ==
    /\ calls[p].pc = "body"
    /\ faults > 0
    /\ faults' = faults - 1
    /\ conn_busy' = PoolRelease(conn_busy, calls[p].conn)
    /\ calls' = Return(p, "storage", NoConn, TRUE)
    /\ UNCHANGED << namespaces, routines, conn_path,
                    outsideRouter >>

\* the caller of GetConnForSchema or CreateSchema releases what it was given
CallerRelease(p) ==
    /\ calls[p].pc = "done"
    /\ calls[p].conn # NoConn
    /\ conn_busy' = PoolRelease(conn_busy, calls[p].conn)
    /\ calls' = [calls EXCEPT ![p] = IdleCall]
    /\ UNCHANGED << namespaces, routines, conn_path, faults,
                    outsideRouter >>

RouterOps == {"GetConnForSchema", "CreateSchema", "GroupService"}

RouterNext ==
    \/ \E p \in Callers, op \in RouterOps, schema \in Schemas : StartCall(p, op, schema)
    \/ \E p \in Callers : Acquire(p)
    \/ \E p \in Callers : AcquireFails(p)
    \/ \E p \in Callers : ExecCreateSchema(p)
    \/ \E p \in Callers : ExecSetSearchPath(p)
    \/ \E p \in Callers : Begin(p)
    \/ \E p \in Callers : StatementFails(p)
    \/ \E p \in Callers : ExecCreateRoutine(p)
    \/ \E p \in Callers : Commit(p)
    \/ \E p \in Callers : RoutineConflict(p)
    \/ \E p \in Callers : TransactionFails(p)
    \/ \E p \in Callers : ServiceBody(p)
    \/ \E p \in Callers : ServiceBodyFails(p)
    \/ \E p \in Callers : CallerRelease(p)

\* ------------------------------------------------- tenants side by side
\* tables of a schema right after CreateGroupPermissionTable
EmptyTenant ==
    [groups |-> EmptyTable, permissions |-> EmptyTable, gp |-> EmptyBag,
     gseq |-> 1, pseq |-> 1]

\* tables of the schema on the search_path
ActiveTenant ==
    [groups |-> groups, permissions |-> permissions, gp |-> group_permissions,
     gseq |-> groups_id_seq, pseq |-> permissions_id_seq]

TablesOf(t) == IF t = active_schema THEN ActiveTenant ELSE parked[t]

TenantsInit ==
    /\ request_tenant = "acme"
    /\ active_schema = "acme"
    /\ parked = [t \in Schemas \ {"acme"} |-> EmptyTenant]

\* a connection handed out with the search_path its last user left on it
getConnForTenantStale(tenantName) == active_schema

\* search_path of the connection that getConnForTenant returns: that of
\* GetConnForSchema(tenantName)
getConnForTenant(tenantName) ==
    SetSearchPath([c \in {1} |-> active_schema], 1, tenantName)[1]

\* a request for tenant t enters a GroupService method; from here on the
\* queries of the method read and write the tables of the schema on the
\* search_path of its connection
GetConnForTenant(t) ==
    LET path == getConnForTenant(t)
    IN  /\ request_tenant' = t
        /\ active_schema' = path
        /\ IF path = active_schema
           THEN UNCHANGED << groups, permissions, group_permissions,
                             groups_id_seq, permissions_id_seq, parked >>
           ELSE /\ groups' = parked[path].groups
                /\ permissions' = parked[path].permissions
                /\ group_permissions' = parked[path].gp
                /\ groups_id_seq' = parked[path].gseq
                /\ permissions_id_seq' = parked[path].pseq
                /\ parked' = [s \in Schemas \ {path} |->
                                 IF s = active_schema THEN ActiveTenant ELSE parked[s]]
        /\ UNCHANGED << user_groups, routerVars, tokenVars, bootVars, raceVars >>

TenantIds == 1..MaxTenantRows
TenantGroupNames == {"admin", "staff"}
TenantPermNames == {DefaultPermissions[1], "report_view"}

TenantsNext ==
    \/ \E t \in Schemas : GetConnForTenant(t)
    \/ \E name \in TenantGroupNames :
           groups_id_seq <= MaxTenantRows /\ CreateGroup(name)
    \/ \E id \in TenantIds, name \in TenantGroupNames : UpdateGroup(id, name)
    \/ \E id \in TenantIds : DeleteGroup(id)
    \/ \E name \in TenantPermNames :
           permissions_id_seq <= MaxTenantRows /\ CreatePermission(name)
    \/ \E id \in TenantIds, name \in TenantPermNames : UpdatePermission(id, name)
    \/ \E id \in TenantIds : DeletePermission(id)
    \/ \E g \in TenantIds, p \in TenantIds : AddPermissionToGroup(g, p)
    \/ \E g \in TenantIds, p \in TenantIds : RemovePermissionFromGroup(g, p)
    \/ \E g \in TenantIds, ids \in IdLists(TenantIds) : SetGroupPermissions(g, ids)

\* ------------------------------------------------------------ AuthService
\* Tokens are HS256 JWTs of golang-jwt/jwt/v5.  A token is the record
\* [alg, sig, claims]: sig names the secret whose bytes made the signature.
SecretValues == {"s1", "s2"}
IssuerValues == {"saas-access", "saas-refresh"}
Second == UnitsPerSecond
\* lifetimes an operator configures: the number 1, and the number of time
\* units of a second
ExpireValues == {1, Second}

Configs ==
    [AccessSecretKey : SecretValues, AccessIssuer : IssuerValues,
     AccessExpire : ExpireValues,
     RefreshSecretKey : SecretValues, RefreshIssuer : IssuerValues,
     RefreshExpire : ExpireValues]

\* a configuration with disjoint signing material and issuers
SeparateConfig ==
    [AccessSecretKey |-> "s1", AccessIssuer |-> "saas-access",
     AccessExpire |-> Second,
     RefreshSecretKey |-> "s2", RefreshIssuer |-> "saas-refresh",
     RefreshExpire |-> Second]

TokensInit ==
    /\ now = 0
    /\ config = SeparateConfig

MaxTime == MaxSeconds * UnitsPerSecond
TokenUserIds == 1..MaxUsers
TokenTenantIds == {1, 3}

\* the secret keys are fields of type string; what the service hands to the
\* library is that string, not its bytes
StringKey(secret) == [type |-> "string", value |-> secret]

\* jwt.NewNumericDate: the time cut to whole seconds
NewNumericDate(t) == (t \div UnitsPerSecond) * UnitsPerSecond

\* RegisteredClaims with the two fields of the service
Claims(userID, tenantID, issuer, expire) ==
    [UserID |-> userID, TenantID |-> tenantID, Issuer |-> issuer,
     IssuedAt |-> NewNumericDate(now),
     ExpiresAt |-> NewNumericDate(now + expire),
     NotBefore |-> NewNumericDate(now)]

NoToken == [alg |-> "", sig |-> "", claims |-> <<>>]

\* jwt.NewWithClaims(jwt.SigningMethodHS256, claims).SignedString(key):
\* SigningMethodHMAC.Sign takes a key of type []byte and nothing else
SignedString(claims, key) ==
    IF key.type # "bytes"
    THEN [err |-> "invalid_key_type", token |-> NoToken]
    ELSE [err |-> "ok",
          token |-> [alg |-> "HS256", sig |-> key.value, claims |-> claims]]

generateAccessToken(userID, tenantID) ==
    SignedString(Claims(userID, tenantID, config.AccessIssuer, config.AccessExpire),
                 StringKey(config.AccessSecretKey))

generateRefreshToken(userID, tenantID) ==
    SignedString(Claims(userID, tenantID, config.RefreshIssuer, config.RefreshExpire),
                 StringKey(config.RefreshSecretKey))

GenerateTokens(userID, tenantID) ==
    LET access == generateAccessToken(userID, tenantID)
        refresh == generateRefreshToken(userID, tenantID)
    IN  IF access.err # "ok"
        THEN [err |-> "signing_failure", accessToken |-> NoToken, refreshToken |-> NoToken]
        ELSE IF refresh.err # "ok"
        THEN [err |-> "signing_failure", accessToken |-> NoToken, refreshToken |-> NoToken]
        ELSE [err |-> "ok", accessToken |-> access.token, refreshToken |-> refresh.token]

\* a parser that reads the claims and verifies nothing
ParseUnverified(token, key, at) == "ok"

\* jwt.ParseWithClaims with the key function of the service, at time at:
\* the signing method, then the signature, then the claims exp and nbf
ParseWithClaims(token, key, at) ==
    IF token.alg # "HS256" THEN "unverifiable"
    ELSE IF key.type # "bytes" THEN "bad_signature"
    ELSE IF token.sig # key.value THEN "bad_signature"
    ELSE IF ~(at < token.claims.ExpiresAt) THEN "expired"
    ELSE IF at < token.claims.NotBefore THEN "not_valid_yet"
    ELSE "ok"

Rejected(err) == [err |-> err, UserID |-> 0, TenantID |-> 0]
Accepted(claims) == [err |-> "ok", UserID |-> claims.UserID, TenantID |-> claims.TenantID]

\* a validator that takes the claims of any token as they come
ValidateAccessTokenTrusting(token, at) == Accepted(token.claims)

\* ValidateAccessToken called at time at
ValidateAccessToken(token, at) ==
    LET err == ParseWithClaims(token, StringKey(config.AccessSecretKey), at)
    IN  IF err # "ok" THEN Rejected(err)
        ELSE IF token.claims.Issuer # config.AccessIssuer THEN Rejected("wrong_issuer")
        ELSE Accepted(token.claims)

\* a validator of refresh tokens that takes the claims of any token
ValidateRefreshTokenTrusting(token, at) == Accepted(token.claims)

\* ValidateRefreshToken called at time at
ValidateRefreshToken(token, at) ==
    LET err == ParseWithClaims(token, StringKey(config.RefreshSecretKey), at)
    IN  IF err # "ok" THEN Rejected(err)
        ELSE IF token.claims.Issuer # config.RefreshIssuer THEN Rejected("wrong_issuer")
        ELSE Accepted(token.claims)

\* RefreshTokens called at time at: the refresh token is validated, and one
\* access token is made from its UserID and TenantID; no refresh token is
\* made and nothing is stored
RefreshTokens(refreshToken, at) ==
    LET claims == ValidateRefreshToken(refreshToken, at)
    IN  IF claims.err # "ok"
        THEN [err |-> "invalid_refresh_token", token |-> NoToken]
        ELSE generateAccessToken(claims.UserID, claims.TenantID)

\* whole seconds a token can carry as a date
Dates == {NewNumericDate(t) : t \in 0..(MaxTime + Second)}

\* tokens a client can present: made with either secret or with a key of
\* its own, under either signing method, with any claims
TokenSpace ==
    [alg : {"HS256", "RS256"},
     sig : SecretValues \cup {"other"},
     claims : [UserID : TokenUserIds, TenantID : TokenTenantIds,
               Issuer : IssuerValues, IssuedAt : {0},
               ExpiresAt : Dates, NotBefore : Dates]]

\* time passes
Tick ==
    /\ now < MaxTime
    /\ now' = now + 1
    /\ UNCHANGED << config, storeVars, routerVars, tenantVars, bootVars, raceVars >>

\* login: GenerateTokens returns the tokens or the signing failure
Login(userID, tenantID) ==
    /\ GenerateTokens(userID, tenantID).err \in {"ok", "signing_failure"}
    /\ UNCHANGED vars

\* a request presents a token to one of the validators
PresentAccessToken(token) ==
    /\ ValidateAccessToken(token, now).err # ""
    /\ UNCHANGED vars

PresentRefreshToken(token) ==
    /\ ValidateRefreshToken(token, now).err # ""
    /\ UNCHANGED vars

\* a client asks for a new access token with a refresh token
Refresh(token) ==
    /\ RefreshTokens(token, now).err # ""
    /\ UNCHANGED vars

TokensNext ==
    \/ Tick
    \/ \E u \in TokenUserIds, t \in TokenTenantIds : Login(u, t)
    \/ \E token \in TokenSpace : PresentAccessToken(token)
    \/ \E token \in TokenSpace : PresentRefreshToken(token)
    \/ \E token \in TokenSpace : Refresh(token)

\* ----------------------------------------------------------- requests
\* The middleware of a tenant-scoped route: SubDomainMiddleware, then
\* AuthMiddleware, then PermissionMiddleware, then the handler.  A request
\* is served in one step; its gin.Context is a value handed from one
\* middleware to the next.

\* the part of the Host header in front of the configured domain
HostSubs == {"", ".", "acme.", "ACME.", "globex."}
Hosts == [sub : HostSubs, port : BOOLEAN]

\* strings.TrimSuffix(sd, ".")
TrimSuffixDot(sd) ==
    CASE sd = "." -> ""
      [] sd = "acme." -> "acme"
      [] sd = "ACME." -> "ACME"
      [] sd = "globex." -> "globex"
      [] OTHER -> sd

\* strings.ToLower
ToLower(str) == IF str = "ACME" THEN "acme" ELSE str

\* GetSubDomain: the port is split off, the domain is trimmed, and what is
\* left, without its dot, is the subdomain; nothing left is "public"
GetSubDomain(host) ==
    LET sd == host.sub
    IN  IF sd = "" THEN "public" ELSE TrimSuffixDot(sd)

\* a gin.Context: the keys that were set and their values
NoContext == [keys |-> {}, TenantName |-> "", UserID |-> 0, TenantID |-> 0]

\* c.AbortWithStatus: the handlers after this one do not run
Abort(ctx, status) == [status |-> status, next |-> FALSE, ctx |-> ctx]
\* c.Next(): the next handler of the chain runs
CallNext(ctx) == [status |-> 200, next |-> TRUE, ctx |-> ctx]

SubDomainMiddleware(ctx, host) ==
    LET tenant == ToLower(GetSubDomain(host))
    IN  IF tenant = "" THEN Abort(ctx, 400)
        ELSE CallNext([ctx EXCEPT !.keys = @ \cup {"TenantName"}, !.TenantName = tenant])

\* the cookie "AccessToken" of a request: a token, or none
NoCookie == [present |-> FALSE, token |-> NoToken]
CookieOf(token) == [present |-> TRUE, token |-> token]

AuthMiddleware(ctx, cookie) ==
    IF ~cookie.present THEN Abort(ctx, 401)
    ELSE LET cliams == ValidateAccessToken(cookie.token, now)
         IN  IF cliams.err # "ok" THEN Abort(ctx, 401)
             ELSE CallNext([ctx EXCEPT !.keys = @ \cup {"UserID", "TenantID"},
                                       !.UserID = cliams.UserID,
                                       !.TenantID = cliams.TenantID])

\* groupService.UserHasPermissionByName(ctx, tenantName, userID, name): the
\* query runs on the tables of the schema tenantName; a schema without the
\* tables answers with an error
UserHasPermissionByNameOf(tenantName, userID, permissionName) ==
    IF permissionName = "" THEN [err |-> "invalid", res |-> FALSE]
    ELSE IF tenantName \notin Schemas THEN [err |-> "storage", res |-> FALSE]
    ELSE IF tenantName = active_schema
    THEN SvcUserHasPermissionByName(userID, permissionName)
    ELSE [err |-> "ok",
          res |-> \E r \in BagToSet(parked[tenantName].gp) :
                      /\ r[2] \in DOMAIN parked[tenantName].permissions
                      /\ parked[tenantName].permissions[r[2]] = permissionName
                      /\ <<userID, r[1]>> \in user_groups]

\* the loop of PermissionMiddleware from the k-th name on: an error ends
\* it, a missing permission ends it (break), and the end of the list
\* leaves hasPermission true
RECURSIVE CheckPermissions(_, _, _, _)
CheckPermissions(tenantName, userID, permissionNames, k) ==
    IF k > Len(permissionNames) THEN "granted"
    ELSE LET has == UserHasPermissionByNameOf(tenantName, userID, permissionNames[k])
         IN  IF has.err # "ok" THEN "error"
             ELSE IF ~has.res THEN "lacking"
             ELSE CheckPermissions(tenantName, userID, permissionNames, k + 1)

\* a middleware that stops a request for an error only
PermissionMiddlewareLenient(ctx, permissionNames) ==
    IF "TenantName" \notin ctx.keys THEN Abort(ctx, 500)
    ELSE IF "UserID" \notin ctx.keys THEN Abort(ctx, 401)
    ELSE LET checked == CheckPermissions(ctx.TenantName, ctx.UserID, permissionNames, 1)
         IN  IF checked = "error" THEN Abort(ctx, 500)
             ELSE CallNext(ctx)

PermissionMiddleware(ctx, permissionNames) ==
    IF "TenantName" \notin ctx.keys THEN Abort(ctx, 500)
    ELSE IF "UserID" \notin ctx.keys THEN Abort(ctx, 401)
    ELSE LET checked == CheckPermissions(ctx.TenantName, ctx.UserID, permissionNames, 1)
         IN  IF checked = "error" THEN Abort(ctx, 500)
             ELSE IF checked = "lacking" THEN Abort(ctx, 403)
             ELSE CallNext(ctx)

\* the chain of a tenant-scoped route guarded by permissionNames
TenantRoute(host, cookie, permissionNames) ==
    LET sub == SubDomainMiddleware(NoContext, host)
        auth == AuthMiddleware(sub.ctx, cookie)
    IN  IF ~sub.next THEN sub
        ELSE IF ~auth.next THEN auth
        ELSE PermissionMiddleware(auth.ctx, permissionNames)

\* rows of public.tenants: the id of the tenant of a name
TenantIdOf == [t \in Schemas |-> IF t = "acme" THEN 1 ELSE 3]

\* contexts that PermissionMiddleware is entered with: TenantName as
\* SubDomainMiddleware sets it or not set, UserID and TenantID as
\* AuthMiddleware sets them or not set
Contexts ==
    {[keys |-> ks, TenantName |-> t, UserID |-> u, TenantID |-> tid] :
        ks \in {{}, {"TenantName"}, {"UserID", "TenantID"},
                {"TenantName", "UserID", "TenantID"}},
        t \in Schemas, u \in TokenUserIds, tid \in TokenTenantIds}

\* lists of permission names that guard a route
NameLists == {<<>>} \cup {<<n>> : n \in PermNameArgs}
                 \cup {<<n, m>> : n \in PermNameArgs, m \in PermNameArgs}

\* guards of the routes that requests are sent to
RouteGuards == {<<>>, <<DefaultPermissions[1]>>}

\* access cookies a client sends: none, or a token with the claims, the
\* issuer and the secret of an access token of user u in tenant t
RequestCookies ==
    {NoCookie} \cup
    {CookieOf([alg |-> "HS256", sig |-> config.AccessSecretKey,
               claims |-> Claims(u, t, config.AccessIssuer, config.AccessExpire)]) :
        u \in TokenUserIds, t \in TokenTenantIds}

\* a request on a tenant-scoped route
Request(host, cookie, permissionNames) ==
    /\ TenantRoute(host, cookie, permissionNames).status \in {200, 400, 401, 403, 500}
    /\ UNCHANGED vars

\* PermissionMiddleware entered with a context
GuardedRequest(ctx, permissionNames) ==
    /\ PermissionMiddleware(ctx, permissionNames).status \in {200, 401, 403, 500}
    /\ UNCHANGED vars

RequestsNext ==
    \/ \E host \in Hosts, cookie \in RequestCookies, names \in RouteGuards :
           Request(host, cookie, names)
    \/ \E ctx \in Contexts, names \in NameLists : GuardedRequest(ctx, names)

\* ------------------------------------------------------------ startup
\* initializePermissionsForAllSchemas, called once by main before the
\* server listens.

\* the schema names of the database in the order of ORDER BY schema_name
SchemaOrder == <<"acme", "globex", "initech", "public">>
SchemaNames == {SchemaOrder[k] : k \in 1..Len(SchemaOrder)}

\* what ListSchemas returns when the schemas in S exist
Listing(S) == SelectSeq(SchemaOrder, LAMBDA s : s \in S)

StartupIdle ==
    [pc |-> "list", schemas |-> <<>>, tenantSchemas |-> <<>>, i |-> 1,
     called |-> <<>>, failed |-> {}, err |-> "none"]

StartupInit == startup = StartupIdle

\* a loop that hands every listed schema on
TenantSchemasAll(schemas) == schemas

\* the loop that leaves "public" out of the listed schemas
TenantSchemas(schemas) == SelectSeq(schemas, LAMBDA s : s # "public")

\* schemas, err := dbManager.ListSchemas(ctx), and the filter loop
ListSchemas(S) ==
    /\ startup.pc = "list"
    /\ startup' = [startup EXCEPT !.pc = "loop", !.schemas = Listing(S),
                                  !.tenantSchemas = TenantSchemas(Listing(S))]
    /\ UNCHANGED << storeVars, routerVars, tenantVars, tokenVars, raceVars >>

\* ListSchemas returns an error: return fmt.Errorf("failed to list schemas")
ListSchemasFails ==
    /\ startup.pc = "list"
    /\ startup' = [startup EXCEPT !.pc = "returned", !.err = "storage"]
    /\ UNCHANGED << storeVars, routerVars, tenantVars, tokenVars, raceVars >>

\* one turn of the loop over tenantSchemas: InitializeTenantSchema(ctx,
\* schema) returns nil (ok) or an error, which is logged
InitializeSchema(ok) ==
    /\ startup.pc = "loop"
    /\ startup.i <= Len(startup.tenantSchemas)
    /\ startup' = [startup EXCEPT
                      !.called = Append(@, startup.tenantSchemas[startup.i]),
                      !.failed = IF ok THEN @ ELSE @ \cup {startup.i},
                      !.i = @ + 1]
    /\ UNCHANGED << storeVars, routerVars, tenantVars, tokenVars, raceVars >>

\* the loop is over: return nil
StartupReturn ==
    /\ startup.pc = "loop"
    /\ startup.i > Len(startup.tenantSchemas)
    /\ startup' = [startup EXCEPT !.pc = "returned", !.err = "ok"]
    /\ UNCHANGED << storeVars, routerVars, tenantVars, tokenVars, raceVars >>

StartupNext ==
    \/ \E S \in SUBSET SchemaNames : ListSchemas(S)
    \/ ListSchemasFails
    \/ \E ok \in BOOLEAN : InitializeSchema(ok)
    \/ StartupReturn

\* -------------------------------------------------------------- races
\* RemovePermissionFromGroup and AddPermissionToGroup of the service, one
\* statement at a time: every statement is a transaction of its own on the
\* connection of the call, and statements of other calls run in between.

IdleWorker ==
    [op |-> "none", g |-> 0, p |-> 0, pc |-> "idle", err |-> "none",
     fresh |-> FALSE, overlaps |-> {}]

RacesInit == workers = [w \in Callers |-> IdleWorker]

\* group and permission ids the calls name
RaceGroupIds == 1..MaxGroupId
RacePermIds == {1, NumSys + 1}

\* calls that are between their first statement and their return
Running == {w \in Callers : workers[w].pc \notin {"idle", "done"}}

\* the call of w goes on to its next statement
Step(w, pc) == [workers EXCEPT ![w].pc = pc]
\* the call of w returns err
Finish(w, err) == [workers EXCEPT ![w].pc = "done", ![w].err = err]

\* a request enters RemovePermissionFromGroup or AddPermissionToGroup.
\* fresh and overlaps are kept for the statement of properties only: whether
\* the link was missing between an existing group and an existing
\* permission, and which calls were running
StartWork(w, op, g, p) ==
    /\ workers[w].pc = "idle"
    /\ workers' = [x \in Callers |->
                      IF x = w
                      THEN [op |-> op, g |-> g, p |-> p,
                            pc |-> IF op = "Remove" THEN "get_group" ELSE "group_exists",
                            err |-> "none",
                            fresh |-> /\ GroupExists(g) /\ PermissionExists(p)
                                      /\ ~HasPermission(g, p),
                            overlaps |-> Running]
                      ELSE IF x \in Running
                      THEN [workers[x] EXCEPT !.overlaps = @ \cup {w}]
                      ELSE workers[x]]
    /\ UNCHANGED << storeVars, outsideRaces >>

\* group, err := s.groupRepo.GetGroup(ctx, conn, groupId)
RemoveGetGroup(w) ==
    /\ workers[w].pc = "get_group"
    /\ LET group == RepoGetGroup(workers[w].g)
       IN  workers' = IF group.err # "ok" THEN Finish(w, "not_found")
                      ELSE IF group.Name = "admin" THEN Step(w, "get_permission")
                      ELSE Step(w, "delete")
    /\ UNCHANGED << storeVars, outsideRaces >>

\* permission, err := s.groupRepo.GetPermission(...), and the test of its
\* name against domain.DefaultPermissions
RemoveGetPermission(w) ==
    /\ workers[w].pc = "get_permission"
    /\ LET permission == RepoGetPermission(workers[w].p)
       IN  workers' = IF permission.err # "ok" THEN Finish(w, "not_found")
                      ELSE IF IsSystemPermission(permission.Name) THEN Finish(w, "protected")
                      ELSE Step(w, "delete")
    /\ UNCHANGED << storeVars, outsideRaces >>

\* err = s.groupRepo.RemovePermissionFromGroup(...): the DELETE
RemoveDelete(w) ==
    /\ workers[w].pc = "delete"
    /\ LET r == RepoRemovePermissionFromGroup(workers[w].g, workers[w].p)
       IN  /\ group_permissions' = r.gp
           /\ workers' = Finish(w, r.err)
    /\ UNCHANGED << groups, permissions, groups_id_seq, permissions_id_seq,
                    user_groups, outsideRaces >>

\* groupExists, err := gr.GroupExists(...)
AddGroupExists(w) ==
    /\ workers[w].pc = "group_exists"
    /\ workers' = IF ~GroupExists(workers[w].g) THEN Finish(w, "not_found")
                   ELSE Step(w, "permission_exists")
    /\ UNCHANGED << storeVars, outsideRaces >>

\* permissionExists, err := gr.PermissionExists(...)
AddPermissionExists(w) ==
    /\ workers[w].pc = "permission_exists"
    /\ workers' = IF ~PermissionExists(workers[w].p) THEN Finish(w, "not_found")
                   ELSE Step(w, "has_permission")
    /\ UNCHANGED << storeVars, outsideRaces >>

\* hasPermission, err := gr.HasPermission(...)
AddHasPermission(w) ==
    /\ workers[w].pc = "has_permission"
    /\ workers' = IF HasPermission(workers[w].g, workers[w].p)
                   THEN Finish(w, "already_granted")
                   ELSE Step(w, "insert")
    /\ UNCHANGED << storeVars, outsideRaces >>

\* INSERT INTO group_permissions ... ON CONFLICT (group_id, permission_id)
\* DO NOTHING
AddInsert(w) ==
    /\ workers[w].pc = "insert"
    /\ LET ins == InsertLinkOnConflictDoNothing(group_permissions,
                                                workers[w].g, workers[w].p)
       IN  /\ group_permissions' = ins.gp
           /\ workers' = Finish(w, ins.err)
    /\ UNCHANGED << groups, permissions, groups_id_seq, permissions_id_seq,
                    user_groups, outsideRaces >>

RacesNext ==
    \/ \E w \in Callers, op \in {"Remove", "Add"}, g \in RaceGroupIds, p \in RacePermIds :
           StartWork(w, op, g, p)
    \/ \E w \in Callers : RemoveGetGroup(w)
    \/ \E w \in Callers : RemoveGetPermission(w)
    \/ \E w \in Callers : RemoveDelete(w)
    \/ \E w \in Callers : AddGroupExists(w)
    \/ \E w \in Callers : AddPermissionExists(w)
    \/ \E w \in Callers : AddHasPermission(w)
    \/ \E w \in Callers : AddInsert(w)
    \/ \E name \in {"admin", "staff"} : groups_id_seq <= MaxGroupId /\ CreateGroup(name)
    \/ \E id \in RaceGroupIds, name \in {"admin", "staff"} : UpdateGroup(id, name)

\* ------------------------------------------------------- specifications
\* the tenant after InitializeTenantSchema: the system permissions exist and
\* the group "admin" holds all of them
SeededTenant ==
    /\ groups = (1 :> "admin")
    /\ permissions = [i \in 1..NumSys |-> DefaultPermissions[i]]
    /\ group_permissions = SetToBag({<<1, i>> : i \in 1..NumSys})
    /\ groups_id_seq = 2
    /\ permissions_id_seq = NumSys + 1

\* the tenant after CreateSchema and CreateGroupPermissionTable only: the
\* tables exist and are empty
BareTenant ==
    /\ groups = EmptyTable
    /\ permissions = EmptyTable
    /\ group_permissions = EmptyBag
    /\ groups_id_seq = 1
    /\ permissions_id_seq = 1

\* membership is set by user management outside the store: user u belongs
\* to the groups 1..u, the user MaxUsers + 1 to none
Membership == {ug \in Users \X (1..MaxGroupId) : ug[2] <= ug[1]}

Init ==
    /\ SeededTenant
    /\ user_groups = Membership
    /\ RouterInit
    /\ TenantsInit
    /\ TokensInit
    /\ StartupInit
    /\ RacesInit

InitBare ==
    /\ BareTenant
    /\ user_groups = Membership
    /\ RouterInit
    /\ TenantsInit
    /\ TokensInit
    /\ StartupInit
    /\ RacesInit

GroupOps(PermIds, PermIdLists) ==
    \/ \E name \in GroupNameArgs :
           (name # "" => groups_id_seq <= MaxGroupId) /\ CreateGroup(name)
    \/ \E id \in GroupIdArgs, name \in GroupNameArgs : UpdateGroup(id, name)
    \/ \E id \in GroupIdArgs : DeleteGroup(id)
    \/ \E g \in GroupIdArgs, p \in PermIds : AddPermissionToGroup(g, p)
    \/ \E g \in GroupIdArgs, p \in PermIds : RemovePermissionFromGroup(g, p)
    \/ \E g \in GroupIdArgs, ids \in PermIdLists : SetGroupPermissions(g, ids)
    \/ \E u \in UserIdArgs, p \in PermIds : UserHasPermission(u, p)
    \/ \E u \in UserIdArgs, name \in PermNameArgs : UserHasPermissionByName(u, name)

PermissionOps(PermIds, cap) ==
    \/ \E name \in PermNameArgs :
           (name # "" => permissions_id_seq <= cap) /\ CreatePermission(name)
    \/ \E id \in PermIds, name \in PermNameArgs : UpdatePermission(id, name)
    \/ \E id \in PermIds : DeletePermission(id)

Next ==
    \/ GroupOps(PermIdArgs, IdLists(PermIdArgs))
    \/ PermissionOps(PermIdArgs, NumSys + MaxNewPerms)

Spec == Init /\ [][Next]_vars

NextBare ==
    \/ GroupOps(PermIdArgsBare, IdLists(PermIdArgsBare))
    \/ PermissionOps(PermIdArgsBare, MaxNewPerms + 1)

SpecBare == InitBare /\ [][NextBare]_vars

\* the router under concurrent requests; the tables of the tenants stay as
\* they are
InitRouter == InitBare

SpecRouter == InitRouter /\ [][RouterNext]_vars

\* requests of two tenants on their Permission Stores, both starting with
\* empty tables
InitTenants == InitBare

SpecTenants == InitTenants /\ [][TenantsNext]_vars

\* the AuthService under every configuration, as time passes
InitTokens ==
    /\ BareTenant
    /\ user_groups = Membership
    /\ RouterInit
    /\ TenantsInit
    /\ now = 0
    /\ config \in Configs
    /\ StartupInit
    /\ RacesInit

SpecTokens == InitTokens /\ [][TokensNext]_vars

\* the store of a seeded tenant when a query can meet an error of the
\* storage: the lookup of the first or of the last system permission name
FailingLookups == {{DefaultPermissions[1]}, {DefaultPermissions[NumSys]}}

NextFaults ==
    \/ Next
    \/ \E g \in GroupIdArgs, ids \in IdLists(PermIdArgs), failing \in FailingLookups :
           SetGroupPermissionsUnder(g, ids, failing)

SpecFaults == Init /\ [][NextFaults]_vars

\* the store of a seeded tenant and the requests on its guarded routes
NextRequests ==
    \/ Next
    \/ RequestsNext

SpecRequests == Init /\ [][NextRequests]_vars

InitStartup == InitBare

\* a seeded tenant whose requests run side by side
SpecRaces == Init /\ [][RacesNext]_vars
SpecStartup == InitStartup /\ [][StartupNext]_vars

\* ------------------------------------------------------------ vocabulary
SystemNames == {DefaultPermissions[i] : i \in 1..NumSys}
AdminGroups == {g \in DOMAIN groups : groups[g] = "admin"}
SystemPermissionIds == {p \in DOMAIN permissions : permissions[p] \in SystemNames}
LinksOf(gp, g) == {r[2] : r \in {x \in BagToSet(gp) : x[1] = g}}
HoldersOf(gp, p) == {r[1] : r \in {x \in BagToSet(gp) : x[2] = p}}
\* every id and id list a caller may name, in a seeded or in a bare tenant:
\* the lists are those SetGroupPermissions is called with in either
AnyPermId == PermIdArgs \cup PermIdArgsBare
AnyIdList == IdLists(PermIdArgs) \cup IdLists(PermIdArgsBare)
\* the group holds a permission of every system permission name
HoldsAllSystemNames(gp, g) ==
    \A i \in 1..NumSys :
        \E p \in DOMAIN permissions :
            permissions[p] = DefaultPermissions[i] /\ Linked(gp, g, p)
SameTables(r) ==
    /\ r.groups = groups
    /\ r.permissions = permissions
    /\ r.gp = group_permissions

\* ------------------------------------------------------------------ claims

\* C1: in every reachable state of a seeded tenant, every group named "admin"
\* is linked to every system permission, that is to every permission of the
\* tenant that carries one of the 12 DefaultPermissions names.
C1_AdminHoldsAllSystemPermissions ==
    \A g \in AdminGroups : \A p \in SystemPermissionIds :
        Linked(group_permissions, g, p)

C3_EmptySetOnAdminYieldsTwelve ==
    \A g \in AdminGroups :
        (/\ "user_view" \in Range(permissions)
         /\ LinksOf(group_permissions, g) = {})
        => LET r == SvcSetGroupPermissions(g, <<>>)
           IN  /\ r.err = "ok"
               /\ Cardinality(LinksOf(r.gp, g)) = NumSys
               /\ HoldsAllSystemNames(r.gp, g)

\* C4: DeletePermission on an existing permission that carries a system
\* permission name returns the protected-resource error and leaves the
\* permission and all its links as they were, whichever groups hold it.
C4_DeleteSystemPermissionProtected ==
    \A id \in SystemPermissionIds :
        LET r == SvcDeletePermission(id)
        IN  r.err = "protected" /\ SameTables(r)

\* a system permission held by two groups, whose deletion is refused
C4_Witness ==
    \E id \in SystemPermissionIds :
        /\ Cardinality(HoldersOf(group_permissions, id)) >= 2
        /\ SvcDeletePermission(id).err = "protected"

\* C5: RemovePermissionFromGroup(g, p) with g a group named "admin" and p a
\* system permission returns the protected-resource error and leaves the
\* link (g, p), and every other row, in place.
C5_RemoveSystemFromAdminProtected ==
    \A g \in AdminGroups : \A p \in SystemPermissionIds :
        LET r == SvcRemovePermissionFromGroup(g, p)
        IN  r.err = "protected" /\ SameTables(r)

\* the group "admin", linked to a system permission and to a permission
\* created later, is refused the removal of the system permission
C5_Witness ==
    \E g \in AdminGroups : \E p \in SystemPermissionIds :
        /\ Linked(group_permissions, g, p)
        /\ LinksOf(group_permissions, g) \ SystemPermissionIds # {}
        /\ SvcRemovePermissionFromGroup(g, p).err = "protected"
        /\ Linked(SvcRemovePermissionFromGroup(g, p).gp, g, p)

ProtectedPair(g, p) == g \in AdminGroups /\ p \in SystemPermissionIds

\* C6 as stated: every RemovePermissionFromGroup(g, p) on an existing group
\* other than the pair (admin, system permission) succeeds and leaves g not
\* linked to p.
C6_EveryOtherRemovalSucceeds ==
    \A g \in DOMAIN groups : \A p \in AnyPermId :
        ~ProtectedPair(g, p) =>
            LET r == SvcRemovePermissionFromGroup(g, p)
            IN  r.err = "ok" /\ ~Linked(r.gp, g, p)

\* C6 amended: on an existing group, other than the pair (admin, system
\* permission), the removal succeeds when g is linked to p and takes away
\* exactly that link; when g is not linked to p it returns a not-found error
\* and changes nothing.  Either way g is not linked to p afterwards.
C6_RemovalOfExistingLinkSucceeds ==
    \A g \in DOMAIN groups : \A p \in AnyPermId :
        ~ProtectedPair(g, p) =>
            LET r == SvcRemovePermissionFromGroup(g, p)
            IN  /\ ~Linked(r.gp, g, p)
                /\ r.groups = groups /\ r.permissions = permissions
                /\ IF Linked(group_permissions, g, p)
                   THEN /\ r.err = "ok"
                        /\ r.gp (+) SetToBag({<<g, p>>}) = group_permissions
                   ELSE /\ r.err = "not_found"
                        /\ r.gp = group_permissions

\* a permission without a system name is taken from the group "admin", which
\* keeps its other links
C6_Witness ==
    \E g \in AdminGroups : \E p \in DOMAIN permissions \ SystemPermissionIds :
        /\ Linked(group_permissions, g, p)
        /\ LinksOf(group_permissions, g) # {p}
        /\ SvcRemovePermissionFromGroup(g, p).err = "ok"
        /\ ~Linked(SvcRemovePermissionFromGroup(g, p).gp, g, p)

\* C7: AddPermissionToGroup(g, p) returns not-found when g or p is missing
\* and already-granted when the link exists, changing nothing; otherwise it
\* succeeds and adds exactly the link (g, p).
C7_AddPermissionToGroupCases ==
    \A g \in GroupIdArgs : \A p \in AnyPermId :
        LET r == SvcAddPermissionToGroup(g, p)
        IN  /\ r.groups = groups /\ r.permissions = permissions
            /\ IF g \notin DOMAIN groups \/ p \notin DOMAIN permissions
               THEN r.err = "not_found" /\ r.gp = group_permissions
               ELSE IF Linked(group_permissions, g, p)
               THEN r.err = "already_granted" /\ r.gp = group_permissions
               ELSE /\ r.err = "ok"
                    /\ r.gp = group_permissions (+) SetToBag({<<g, p>>})

\* one state shows the three cases: a missing permission, a pair that is
\* linked, and a pair of an existing group and permission that is not
C7_Witness ==
    \E g \in DOMAIN groups :
        /\ \E p \in AnyPermId : SvcAddPermissionToGroup(g, p).err = "not_found"
        /\ \E p \in AnyPermId : SvcAddPermissionToGroup(g, p).err = "already_granted"
        /\ \E p \in AnyPermId :
               /\ SvcAddPermissionToGroup(g, p).err = "ok"
               /\ Linked(SvcAddPermissionToGroup(g, p).gp, g, p)

\* some group the user belongs to is linked to the permission
ReachableViaGroup(u, p) ==
    \E g \in DOMAIN groups : <<u, g>> \in user_groups /\ Linked(group_permissions, g, p)

C9_FailedSetLeavesLinks ==
    \A g \in GroupIdArgs : \A ids \in AnyIdList :
        LET r == SvcSetGroupPermissions(g, ids)
        IN  /\ (\E k \in 1..Len(ids) : ids[k] \notin DOMAIN permissions) => r.err # "ok"
            /\ r.err # "ok" => SameTables(r)

\* a group other than "admin" with links, and a list of an existing and a
\* missing permission, whose insert fails after the clear
C9_Witness ==
    \E g \in DOMAIN groups \ AdminGroups : \E ids \in AnyIdList :
        /\ LinksOf(group_permissions, g) # {}
        /\ \E k \in 1..Len(ids) : ids[k] \in DOMAIN permissions
        /\ \E k \in 1..Len(ids) : ids[k] \notin DOMAIN permissions
        /\ SvcSetGroupPermissions(g, ids).err = "storage"
        /\ SvcSetGroupPermissions(g, ids).gp = group_permissions

\* C10: every row of group_permissions refers to an existing group and an
\* existing permission and is there once; DeleteGroup and DeletePermission
\* leave no row of what they deleted.
C10_LinksNeverDangle ==
    /\ \A r \in BagToSet(group_permissions) :
           /\ r[1] \in DOMAIN groups
           /\ r[2] \in DOMAIN permissions
           /\ CopiesIn(r, group_permissions) = 1
    /\ \A g \in DOMAIN groups :
           LET r == SvcDeleteGroup(g)
           IN  r.err = "ok" /\ g \notin DOMAIN r.groups /\ LinksOf(r.gp, g) = {}
    /\ \A p \in DOMAIN permissions \ SystemPermissionIds :
           LET r == SvcDeletePermission(p)
           IN  r.err = "ok" /\ p \notin DOMAIN r.permissions /\ HoldersOf(r.gp, p) = {}

\* the seeded group 1 and the seeded permission 1, both linked at the start,
\* are deleted and other links remain
C10_Witness ==
    /\ 1 \notin DOMAIN groups
    /\ 1 \notin DOMAIN permissions
    /\ group_permissions # EmptyBag

\* ------------------------------------------------ claims on the router
\* calls that are between their first and their last statement
InFlight(p) == calls[p].pc \notin {"idle", "done"}
\* the connection a call works on or was given
HeldConns == {calls[p].conn : p \in Callers} \ {NoConn}
CheckedOut == {c \in Conns : conn_busy[c]}

\* C11: every CreateSchema(T) call that no outside failure hits, whether it
\* comes after another CreateSchema(T) or runs together with one, returns a
\* connection without error and leaves namespace T with its routine
\* update_column.
C11_CreateSchemaIdempotent ==
    \A p \in Callers :
        (calls[p].op = "CreateSchema" /\ calls[p].pc = "done" /\ ~calls[p].faulted)
        => /\ calls[p].err = "ok"
           /\ calls[p].conn # NoConn
           /\ calls[p].schema \in namespaces
           /\ calls[p].schema \in routines

\* C12: once no CreateSchema(T) call is in flight, namespace T and its
\* routine update_column both exist or are both absent, whichever step of a
\* call failed.
C12_NamespaceAndRoutineTogether ==
    \A T \in Schemas :
        (\A p \in Callers :
            ~(InFlight(p) /\ calls[p].op = "CreateSchema" /\ calls[p].schema = T))
        => (T \in namespaces <=> T \in routines)

\* C13: the connections checked out of the pool are those that a call in
\* flight works on or that were handed to a caller who has not released
\* them; no call returns and leaves its connection checked out.
C13_NoConnectionLeak == CheckedOut = HeldConns

\* C14: GetConnForSchema(T) returns a connection only when namespace T
\* exists.
C14_GetConnOnlyForExistingNamespace ==
    \A p \in Callers :
        (calls[p].op = "GetConnForSchema" /\ calls[p].pc = "done" /\ calls[p].err = "ok")
        => calls[p].schema \in namespaces

\* C15: a connection that GetConnForSchema(T) or CreateSchema(T) has set up
\* or returned has search_path T for as long as the call or its caller
\* holds it, whatever other calls do on their connections, and no two calls
\* hold the same connection.
C15_ConnectionHasCallersNamespace ==
    /\ \A p \in Callers :
           (/\ calls[p].conn # NoConn
            /\ calls[p].pc \in {"begin", "exec", "wait", "conflict", "commit", "body", "done"})
           => conn_path[calls[p].conn] = calls[p].schema
    /\ \A p, q \in Callers :
           (p # q /\ calls[p].conn # NoConn) => calls[p].conn # calls[q].conn

\* two callers hold connections that the router returned for two tenants
C15_Witness ==
    \E p, q \in Callers :
        /\ calls[p].pc = "done" /\ calls[p].op = "GetConnForSchema"
        /\ calls[q].pc = "done" /\ calls[q].op = "CreateSchema"
        /\ calls[p].conn # NoConn /\ calls[q].conn # NoConn
        /\ calls[p].schema # calls[q].schema
        /\ conn_path[calls[p].conn] = calls[p].schema
        /\ conn_path[calls[q].conn] = calls[q].schema

\* --------------------------------------------- claims on tenant isolation
\* C16: every step of a Permission Store operation that serves a request of
\* tenant A, the set-up of its connection included, leaves the groups,
\* permissions, links and sequences of every other tenant B as they were.
C16_OtherTenantsUnchanged ==
    [][\A B \in Schemas : B # request_tenant' => TablesOf(B)' = TablesOf(B)]_vars

\* both tenants have a group of the same name, linked to a permission in
\* one tenant and to none in the other
C16_Witness ==
    \E A, B \in Schemas :
        /\ A # B
        /\ \E g \in DOMAIN TablesOf(A).groups, h \in DOMAIN TablesOf(B).groups :
               /\ TablesOf(A).groups[g] = TablesOf(B).groups[h]
               /\ LinksOf(TablesOf(A).gp, g) # {}
               /\ LinksOf(TablesOf(B).gp, h) = {}
               /\ TablesOf(B).permissions # EmptyTable

\* -------------------------------------------------- claims on the tokens
\* the token carries what generateAccessToken / generateRefreshToken put
\* into a token and is signed with the bytes of that secret
MintedAsAccess(token) ==
    /\ token.alg = "HS256"
    /\ token.sig = config.AccessSecretKey
    /\ token.claims.Issuer = config.AccessIssuer
MintedAsRefresh(token) ==
    /\ token.alg = "HS256"
    /\ token.sig = config.RefreshSecretKey
    /\ token.claims.Issuer = config.RefreshIssuer
\* the instant at lies in the window of the dates of the token
InWindow(token, at) ==
    token.claims.NotBefore <= at /\ at < token.claims.ExpiresAt

\* C17: for every user id u and tenant id t, GenerateTokens(u, t) succeeds,
\* and validating the access token at the instant of issue succeeds with
\* UserID = u and TenantID = t, likewise the refresh token.
C17_GenerateThenValidateRoundTrip ==
    \A u \in TokenUserIds, t \in TokenTenantIds :
        LET g == GenerateTokens(u, t)
        IN  /\ g.err = "ok"
            /\ ValidateAccessToken(g.accessToken, now)
                   = [err |-> "ok", UserID |-> u, TenantID |-> t]
            /\ ValidateRefreshToken(g.refreshToken, now)
                   = [err |-> "ok", UserID |-> u, TenantID |-> t]

C19_ExpiresAfterLifetime ==
    \A u \in TokenUserIds, t \in TokenTenantIds :
        LET g == GenerateTokens(u, t)
        IN  /\ g.err = "ok"
            /\ \A at \in now..(MaxTime + Second) :
                   /\ at < now + config.AccessExpire
                          => ValidateAccessToken(g.accessToken, at).err = "ok"
                   /\ at > now + config.AccessExpire
                          => ValidateAccessToken(g.accessToken, at).err = "expired"
                   /\ at < now + config.RefreshExpire
                          => ValidateRefreshToken(g.refreshToken, at).err = "ok"
                   /\ at > now + config.RefreshExpire
                          => ValidateRefreshToken(g.refreshToken, at).err = "expired"

ClaimFields == {"UserID", "TenantID", "Issuer", "IssuedAt", "ExpiresAt", "NotBefore"}

C23_StorageErrorsReachTheCaller ==
    \A g \in AdminGroups : \A ids \in IdLists(PermIdArgs) : \A failing \in FailingLookups :
        SvcSetGroupPermissionsUnder(g, ids, failing).err # "ok"

\* C24: once the listing has succeeded, the calls of InitializeTenantSchema
\* made so far are the listed schemas other than "public", in listing
\* order and each once, up to where the loop is; when the function has
\* returned, every one of them was called, whichever calls failed, and the
\* function returned no error.
C24_EverySchemaInitializedOnce ==
    (startup.pc # "list" /\ startup.err # "storage") =>
        LET expected == SelectSeq(startup.schemas, LAMBDA s : s # "public")
        IN  /\ Len(startup.called) <= Len(expected)
            /\ startup.called = SubSeq(expected, 1, Len(startup.called))
            /\ startup.pc = "returned" =>
                   /\ startup.called = expected
                   /\ startup.err = "ok"

\* the listing holds "public" and two tenants, the call for the first
\* tenant failed, and the function has returned
C24_Witness ==
    /\ startup.pc = "returned"
    /\ \E k \in 1..Len(startup.schemas) : startup.schemas[k] = "public"
    /\ Len(startup.called) >= 2
    /\ 1 \in startup.failed
    /\ startup.err = "ok"

\* the check of the k-th name of the list does not answer true without error
CheckFails(ctx, names, k) ==
    UserHasPermissionByNameOf(ctx.TenantName, ctx.UserID, names[k])
        # [err |-> "ok", res |-> TRUE]
\* the first name of the list whose check does not answer true without error
FirstFailing(ctx, names) ==
    CHOOSE k \in 1..Len(names) :
        CheckFails(ctx, names, k) /\ \A j \in 1..(k - 1) : ~CheckFails(ctx, names, j)

\* C25: PermissionMiddleware(names) calls the next handler exactly when
\* TenantName and UserID are set in the context and UserHasPermissionByName
\* answers true without error for every name of the list; otherwise the
\* handler does not run and the status is 500 when TenantName is not set,
\* else 401 when UserID is not set, else that of the first name that is
\* not answered true: 500 for an error, 403 for a missing permission.
C25_PermissionMiddlewareDecides ==
    \A ctx \in Contexts : \A names \in NameLists :
        LET r == PermissionMiddleware(ctx, names)
            allHeld == \A k \in 1..Len(names) : ~CheckFails(ctx, names, k)
        IN  /\ r.next <=> ("TenantName" \in ctx.keys /\ "UserID" \in ctx.keys /\ allHeld)
            /\ r.next => r.status = 200
            /\ ~r.next =>
                   r.status =
                       IF "TenantName" \notin ctx.keys THEN 500
                       ELSE IF "UserID" \notin ctx.keys THEN 401
                       ELSE IF UserHasPermissionByNameOf(ctx.TenantName, ctx.UserID,
                                   names[FirstFailing(ctx, names)]).err # "ok"
                       THEN 500 ELSE 403

\* a route guarded by two permissions lets one user through and answers
\* another with 403; a list whose second name meets an error gives 500 to
\* the first user and 403 to the second, who lacks the first name already;
\* no user id gives 401 and no tenant 500
C25_Witness ==
    \E ctx, other \in Contexts :
        /\ ctx.keys = {"TenantName", "UserID", "TenantID"}
        /\ other.keys = ctx.keys
        /\ ctx.TenantName = active_schema
        /\ other.TenantName = active_schema
        /\ PermissionMiddleware(ctx, <<DefaultPermissions[1], "report_view">>).next
        /\ PermissionMiddleware(other, <<DefaultPermissions[1], "report_view">>).status = 403
        /\ PermissionMiddleware(ctx, <<"report_view", "">>).status = 500
        /\ PermissionMiddleware(other, <<"report_view", "">>).status = 403
        /\ PermissionMiddleware([ctx EXCEPT !.keys = {"TenantName"}], <<>>).status = 401
        /\ PermissionMiddleware([ctx EXCEPT !.keys = {"UserID", "TenantID"}], <<>>).status = 500

C27_SystemNamesAlwaysExist ==
    \A name \in SystemNames : \E p \in DOMAIN permissions : permissions[p] = name

\* C28: the DELETE of RemovePermissionFromGroup(g, p) never removes the
\* link of a system permission p from a group that is named "admin" when
\* the DELETE runs, whatever statements of other calls ran between the
\* check of the name and the DELETE.
C28_AdminProtectionUnderInterleaving ==
    [][\A w \in Callers :
          (/\ workers[w].pc = "delete"
           /\ workers'[w].pc = "done"
           /\ workers'[w].err = "ok"
           /\ workers[w].p \in SystemPermissionIds)
          => workers[w].g \notin AdminGroups
      ]_vars

\* C29: of two AddPermissionToGroup calls for the same pair that ran at
\* the same time, each entered when the group and the permission existed
\* and were not linked, exactly one has returned success and the other the
\* already-granted error, and the link is there once.
C29_ConcurrentAddOneWinner ==
    \A w1, w2 \in Callers :
        (/\ w1 # w2
         /\ workers[w1].op = "Add" /\ workers[w2].op = "Add"
         /\ workers[w1].g = workers[w2].g /\ workers[w1].p = workers[w2].p
         /\ workers[w1].fresh /\ workers[w2].fresh
         /\ w2 \in workers[w1].overlaps
         /\ workers[w1].pc = "done" /\ workers[w2].pc = "done")
        => /\ {workers[w1].err, workers[w2].err} = {"ok", "already_granted"}
           /\ CopiesIn(<<workers[w1].g, workers[w1].p>>, group_permissions) = 1

\* C30: SetGroupPermissions with a list that names an existing permission
\* twice succeeds and leaves the links that the list without the
\* repetition leaves, for "admin" and for every other group.
C30_DuplicateIdsAreASet ==
    \A g \in DOMAIN groups : \A p \in DOMAIN permissions :
        LET twice == SvcSetGroupPermissions(g, <<p, p>>)
            once == SvcSetGroupPermissions(g, <<p>>)
        IN  /\ twice.err = "ok"
            /\ twice.gp = once.gp

====
